---- MODULE Spec2Model ----
(***************************************************************************)
(* A model of budou (src/budou/budou.py): the Chunk and ChunkList data     *)
(* model, entity grouping, the two-pass dependency resolution, HTML        *)
(* serialization and the cached parse pipeline.                            *)
(*                                                                         *)
(* Words and texts are sequences of one-character strings.  Python's None  *)
(* is the string "None"; a chunk's dependency is "True" (concatenate to    *)
(* the following word), "False" (to the previous word) or "None".  A chunk *)
(* carries an id standing for the identity of the Python object.           *)
(***************************************************************************)
EXTENDS Integers, Sequences, FiniteSets, TLC

VARIABLES chunks, text, prev, op, args, ret, cache, calls

vars == <<chunks, text, prev, op, args, ret, cache, calls>>

(***************************************************************************)
(* Bounds of the model.                                                    *)
(***************************************************************************)
MaxChunks == 3
MaxEntities == 1
MaxEntityLen == 2
MaxCalls == 2

None == "None"
SPACE_POS == "SPACE"
DEPENDENT_LABEL ==
  {"P", "SNUM", "PRT", "AUX", "SUFF", "MWV", "AUXPASS", "AUXVV", "RDROP",
   "NUMBER", "NUM"}
DEFAULT_CLASS_NAME == "ww"

(***************************************************************************)
(* Helpers on sequences.                                                   *)
(***************************************************************************)
Reverse(s) == [i \in 1..Len(s) |-> s[Len(s) + 1 - i]]

RECURSIVE JoinWords(_)
\* ''.join([chunk.word for chunk in cs])
JoinWords(cs) == IF cs = <<>> THEN <<>> ELSE Head(cs).word \o JoinWords(Tail(cs))

BoolStr(b) == IF b THEN "True" ELSE "False"

(***************************************************************************)
(* Chunk                                                                   *)
(***************************************************************************)
\* unicodedata.category for the characters of the model's alphabet; a word
\* that is not a single character makes the lookup raise (TypeError).
UnicodeCategory(ch) ==
  CASE ch = "(" -> "Ps"
    [] ch = ")" -> "Pe"
    [] ch = " " -> "Zs"
    [] OTHER -> "Ll"

AddDependencyIfPunct(c) ==
  IF c.pos = "PUNCT" /\ Len(c.word) = 1
    THEN [c EXCEPT !.dependency = BoolStr(UnicodeCategory(c.word[1]) \in {"Ps", "Pi"})]
    ELSE c

Chunk(id, word, pos, label, dependency) ==
  AddDependencyIfPunct(
    [id |-> id, word |-> word, pos |-> pos, label |-> label,
     dependency |-> dependency])

ChunkSpace(id) == Chunk(id, <<" ">>, SPACE_POS, None, None)

is_space(c) == c.pos = SPACE_POS

\* update_word adding to the word instead of replacing it.
update_word_appending(c, word) == [c EXCEPT !.word = c.word \o word]

update_word(c, word) == [c EXCEPT !.word = word]

serialize(c) ==
  [word |-> c.word, pos |-> c.pos, label |-> c.label, dependency |-> c.dependency]

maybe_add_dependency(c, default_dependency_direction) ==
  IF c.dependency = None /\ c.label \in DEPENDENT_LABEL
    THEN [c EXCEPT !.dependency = BoolStr(default_dependency_direction)]
    ELSE c

\* The identity of a newly allocated Chunk: one no chunk of the list has.
FreshId(cs) ==
  CHOOSE n \in 0..Len(cs) :
    /\ \A i \in 1..Len(cs) : cs[i].id # n
    /\ \A m \in 0..Len(cs) : (\A i \in 1..Len(cs) : cs[i].id # m) => n <= m

(***************************************************************************)
(* ChunkList                                                               *)
(***************************************************************************)
RECURSIVE OverlapScan(_, _, _, _, _)
\* The loop of get_overlaps: k is the position of the chunk, index the
\* running sum of the word lengths before it.
OverlapScan(self, offset, length, k, index) ==
  IF k > Len(self) THEN <<>>
  ELSE (IF offset < index + Len(self[k].word) /\ index < offset + length
          THEN <<self[k]>> ELSE <<>>)
       \o OverlapScan(self, offset, length, k + 1, index + Len(self[k].word))

\* get_overlaps without the move past a space at offset.
get_overlaps_unshifted(self, offset, length) ==
  IF offset >= Len(JoinWords(self))
    THEN [err |-> TRUE, result |-> <<>>]
    ELSE [err |-> FALSE, result |-> OverlapScan(self, offset, length, 1, 0)]

\* get_overlaps: err is the IndexError of indexing the joined text at offset.
get_overlaps(self, offset, length) ==
  LET joined == JoinWords(self) IN
  IF offset >= Len(joined)
    THEN [err |-> TRUE, result |-> <<>>]
    ELSE LET off == IF joined[offset + 1] = " " THEN offset + 1 ELSE offset IN
         [err |-> FALSE, result |-> OverlapScan(self, off, length, 1, 0)]

\* list.index: 0-based position of the first element that is the chunk, -1
\* standing for ValueError.
IndexOf(self, chunk) ==
  IF \E i \in 1..Len(self) : self[i].id = chunk.id
    THEN (CHOOSE i \in 1..Len(self) :
            /\ self[i].id = chunk.id
            /\ \A j \in 1..(i - 1) : self[j].id # chunk.id) - 1
    ELSE -1

\* swap: err is the ValueError of list.index or the IndexError of indexes[0].
swap(self, old_chunks, new_chunk) ==
  LET indexes == [i \in 1..Len(old_chunks) |-> IndexOf(self, old_chunks[i])] IN
  IF (\E i \in 1..Len(indexes) : indexes[i] = -1) \/ indexes = <<>>
    THEN [err |-> TRUE, chunks |-> self]
    ELSE LET first == indexes[1]
             last == indexes[Len(indexes)]
             \* del self[first:last + 1]
             kept == IF last + 1 > first
                       THEN SubSeq(self, 1, first) \o SubSeq(self, last + 2, Len(self))
                       ELSE self
         IN [err |-> FALSE,
             chunks |-> SubSeq(kept, 1, first) \o <<new_chunk>>
                        \o SubSeq(kept, first + 1, Len(kept))]

(***************************************************************************)
(* Budou._group_chunks_by_entities                                         *)
(***************************************************************************)
\* The entity chunk made of the words of the chunks that are not spaces.
EntityChunkNoSpaces(cs, chunks_to_concat) ==
  Chunk(FreshId(cs),
        JoinWords(SelectSeq(chunks_to_concat, LAMBDA c : ~is_space(c))),
        None, None, None)

\* new_chunk = Chunk(u''.join([chunk.word for chunk in chunks_to_concat]))
EntityChunk(cs, chunks_to_concat) ==
  Chunk(FreshId(cs), JoinWords(chunks_to_concat), None, None, None)

RECURSIVE group_chunks_by_entities(_, _)
\* An entity is [beginOffset, contentLen]: only len(entity['content']) is
\* read.  The list is changed in place, so a failure leaves it as changed by
\* the entities before the failing one.
group_chunks_by_entities(cs, entities) ==
  IF entities = <<>> THEN [err |-> FALSE, chunks |-> cs]
  ELSE LET entity == Head(entities)
           found == get_overlaps(cs, entity.beginOffset, entity.contentLen)
       IN IF found.err THEN [err |-> TRUE, chunks |-> cs]
          ELSE IF found.result = <<>>
            THEN group_chunks_by_entities(cs, Tail(entities))
          ELSE LET new_chunk == EntityChunk(cs, found.result)
                   swapped == swap(cs, found.result, new_chunk)
               IN IF swapped.err THEN [err |-> TRUE, chunks |-> cs]
                  ELSE group_chunks_by_entities(swapped.chunks, Tail(entities))

(***************************************************************************)
(* Budou._concatenate_inner and Budou._resolve_dependency                  *)
(***************************************************************************)
RECURSIVE ConcatLoop(_, _, _, _)
\* The for loop of _concatenate_inner over source_chunks.
ConcatLoop(source_chunks, direction, tmp_bucket, target_chunks) ==
  IF source_chunks = <<>> THEN target_chunks \o tmp_bucket
  ELSE LET chunk == Head(source_chunks) IN
       IF chunk.dependency = BoolStr(direction)
          \/ (direction = FALSE /\ is_space(chunk))
         THEN ConcatLoop(Tail(source_chunks), direction,
                         Append(tmp_bucket, chunk), target_chunks)
         ELSE LET filled == Append(tmp_bucket, chunk)
                  bucket == IF ~direction THEN Reverse(filled) ELSE filled
                  new_word == JoinWords(bucket)
              IN ConcatLoop(Tail(source_chunks), direction, <<>>,
                            Append(target_chunks, update_word(chunk, new_word)))

\* _concatenate_inner returning target_chunks as they are in both directions.
concatenate_inner_unrestored(cs, direction) ==
  ConcatLoop(IF direction THEN cs ELSE Reverse(cs), direction, <<>>, <<>>)

concatenate_inner(cs, direction) ==
  LET source_chunks == IF direction THEN cs ELSE Reverse(cs)
      target_chunks == ConcatLoop(source_chunks, direction, <<>>, <<>>)
  IN IF direction THEN target_chunks ELSE Reverse(target_chunks)

\* _resolve_dependency with the forward pass only.
resolve_dependency_forward_only(cs) == concatenate_inner(cs, TRUE)

\* _resolve_dependency
resolve_dependency(cs) == concatenate_inner(concatenate_inner(cs, TRUE), FALSE)

(***************************************************************************)
(* SpecSeq: entity grouping and dependency resolution applied, in any      *)
(* order, to an arbitrary chunk list.                                      *)
(***************************************************************************)
\* What a chunk of an arbitrary list may be, apart from its identity: a space,
\* or a word leaning forward, backward or nowhere.
ChunkKinds ==
  {serialize(ChunkSpace(0)),
   serialize(Chunk(0, <<"a">>, "NOUN", "NN", "True")),
   serialize(Chunk(0, <<"b">>, "PRT", "P", "False")),
   serialize(Chunk(0, <<"c">>, "VERB", "ROOT", None))}

ChunkLists(n) ==
  {[i \in 1..n |-> [id |-> i - 1, word |-> f[i].word, pos |-> f[i].pos,
                    label |-> f[i].label, dependency |-> f[i].dependency]] :
     f \in [1..n -> ChunkKinds]}

\* The chunk list of the "Tokyo Tower" scenario.
TokyoTower ==
  <<Chunk(0, <<"T", "o", "k", "y", "o">>, "NOUN", None, None),
    ChunkSpace(1),
    Chunk(2, <<"T", "o", "w", "e", "r">>, "NOUN", None, None)>>

Entities(t) ==
  {[beginOffset |-> o, contentLen |-> l] :
     o \in 0..Len(t), l \in 1..MaxEntityLen}

EntityLists(t) ==
  UNION {[1..n -> Entities(t)] : n \in 1..MaxEntities}

NoCache == <<>>

\* Identities are compared within one call only (list.index in swap): between
\* calls a list is kept with each chunk identified by its position.
Renumber(cs) == [i \in 1..Len(cs) |-> [cs[i] EXCEPT !.id = i - 1]]

SeqInit ==
  /\ chunks \in UNION {ChunkLists(n) : n \in 0..MaxChunks}
  /\ text = JoinWords(chunks)
  /\ prev = <<>>
  /\ op = "init"
  /\ args = [entities |-> <<>>]
  /\ ret = [err |-> FALSE]
  /\ cache = NoCache
  /\ calls = 0

\* chunks = self._group_chunks_by_entities(chunks, entities); the entities
\* and the list before the call are kept in args and prev when noted.
Group(lists, noted) ==
  \E entities \in lists :
    LET r == group_chunks_by_entities(chunks, entities) IN
    /\ chunks' = Renumber(r.chunks)
    /\ ret' = [err |-> r.err]
    /\ prev' = IF noted THEN chunks ELSE <<>>
    /\ op' = "group"
    /\ args' = [entities |-> IF noted THEN entities ELSE <<>>]
    /\ UNCHANGED <<text, cache, calls>>

\* chunks = self._resolve_dependency(chunks)
Resolve(noted) ==
  /\ chunks' = Renumber(resolve_dependency(chunks))
  /\ ret' = [err |-> FALSE]
  /\ prev' = IF noted THEN chunks ELSE <<>>
  /\ op' = "resolve"
  /\ args' = [entities |-> <<>>]
  /\ UNCHANGED <<text, cache, calls>>

SeqNext == Group(EntityLists(text), FALSE) \/ Resolve(FALSE)

SpecSeq == SeqInit /\ [][SeqNext]_vars

(***************************************************************************)
(* SpecOps: one call of get_overlaps, swap or _resolve_dependency on an    *)
(* arbitrary chunk list.                                                   *)
(***************************************************************************)
OpsKinds ==
  ChunkKinds \cup {serialize(Chunk(0, <<"d", "e">>, "NOUN", "NN", None))}

OpsLists(n) ==
  {[i \in 1..n |-> [id |-> i - 1, word |-> f[i].word, pos |-> f[i].pos,
                    label |-> f[i].label, dependency |-> f[i].dependency]] :
     f \in [1..n -> OpsKinds]}

NoArgs == [entities |-> <<>>]

OpsInit ==
  /\ chunks \in UNION {OpsLists(n) : n \in 0..MaxChunks}
  /\ text = JoinWords(chunks)
  /\ prev = chunks
  /\ op = "init"
  /\ args = NoArgs
  /\ ret = [err |-> FALSE]
  /\ cache = NoCache
  /\ calls = 0

\* chunks.get_overlaps(offset, length)
GetOverlaps ==
  /\ op = "init"
  /\ \E offset \in 0..Len(text), length \in 0..(MaxEntityLen + 1) :
       LET r == get_overlaps(chunks, offset, length) IN
       /\ ret' = r
       /\ args' = [offset |-> offset, length |-> length]
  /\ op' = "get_overlaps"
  /\ prev' = chunks
  /\ UNCHANGED <<chunks, text, cache, calls>>

\* A chunk that is not in the list, and the chunk to insert.
ForeignChunk(cs) == Chunk(Len(cs), <<"x">>, None, None, None)
NewChunk(cs) == Chunk(Len(cs) + 1, <<"z">>, None, None, None)

OldChunkLists(cs) ==
  LET pool == {cs[i] : i \in 1..Len(cs)} \cup {ForeignChunk(cs)} IN
  UNION {[1..n -> pool] : n \in 0..MaxChunks}

\* chunks.swap(old_chunks, new_chunk)
Swap ==
  /\ op = "init"
  /\ \E old_chunks \in OldChunkLists(chunks) :
       LET r == swap(chunks, old_chunks, NewChunk(chunks)) IN
       /\ chunks' = r.chunks
       /\ ret' = [err |-> r.err]
       /\ args' = [old_chunks |-> old_chunks, new_chunk |-> NewChunk(chunks)]
  /\ op' = "swap"
  /\ prev' = chunks
  /\ UNCHANGED <<text, cache, calls>>

ResolveOnce == op = "init" /\ Resolve(TRUE)

OpsNext == GetOverlaps \/ Swap \/ ResolveOnce

SpecOps == OpsInit /\ [][OpsNext]_vars

(***************************************************************************)
(* SpecScenario: entity grouping and resolution of the "Tokyo Tower" list. *)
(***************************************************************************)
ScenarioEntityLists(t) ==
  LET es == {[beginOffset |-> o, contentLen |-> l] :
               o \in 0..Len(t), l \in 1..Len(t)} IN
  UNION {[1..n -> es] : n \in 1..MaxEntities}

ScenarioInit ==
  /\ chunks = TokyoTower
  /\ text = JoinWords(chunks)
  /\ prev = chunks
  /\ op = "init"
  /\ args = NoArgs
  /\ ret = [err |-> FALSE]
  /\ cache = NoCache
  /\ calls = 0

\* The order of _get_chunks_with_api: grouping, then resolution.
ScenarioNext ==
  \/ op = "init" /\ Group(ScenarioEntityLists(text), TRUE)
  \/ op = "group" /\ ~ret.err /\ Resolve(TRUE)

SpecScenario == ScenarioInit /\ [][ScenarioNext]_vars

(***************************************************************************)
(* Budou: the parse pipeline                                               *)
(***************************************************************************)
IsWhite(ch) == ch = " " \/ ch = "\n"

RECURSIVE RemoveNewlines(_)
\* source.replace(u'\n', u'')
RemoveNewlines(t) ==
  IF t = <<>> THEN <<>>
  ELSE (IF Head(t) = "\n" THEN <<>> ELSE <<Head(t)>>) \o RemoveNewlines(Tail(t))

RECURSIVE LStrip(_)
LStrip(t) == IF t # <<>> /\ IsWhite(Head(t)) THEN LStrip(Tail(t)) ELSE t

\* str.strip()
Strip(t) == Reverse(LStrip(Reverse(LStrip(t))))

RECURSIVE CollapseSpaces(_)
\* re.sub(r'\s\s+', u' ', source)
CollapseSpaces(t) ==
  IF Len(t) >= 2 /\ IsWhite(t[1]) /\ IsWhite(t[2])
    THEN <<" ">> \o CollapseSpaces(LStrip(t))
  ELSE IF t = <<>> THEN <<>>
  ELSE <<Head(t)>> \o CollapseSpaces(Tail(t))

\* _preprocess.  The <br> substitution finds nothing to replace in a text of
\* the model's alphabet, which has no "<".
preprocess(source) == CollapseSpaces(Strip(RemoveNewlines(source)))

RECURSIVE SplitLoop(_, _)
\* str.split(): the maximal runs of non-whitespace characters.
SplitLoop(t, word) ==
  IF t = <<>> THEN (IF word = <<>> THEN <<>> ELSE <<word>>)
  ELSE IF IsWhite(Head(t))
    THEN (IF word = <<>> THEN <<>> ELSE <<word>>) \o SplitLoop(Tail(t), <<>>)
  ELSE SplitLoop(Tail(t), Append(word, Head(t)))

Split(t) == SplitLoop(t, <<>>)

RECURSIVE ChunksPerSpaceLoop(_, _, _)
ChunksPerSpaceLoop(words, i, cs) ==
  IF i > Len(words) THEN cs
  ELSE LET added == Append(cs, Chunk(Len(cs), words[i], None, None, None)) IN
       ChunksPerSpaceLoop(words, i + 1,
         IF i < Len(words) THEN Append(added, ChunkSpace(Len(added))) ELSE added)

\* _get_chunks_per_space
get_chunks_per_space(input_text) == ChunksPerSpaceLoop(Split(input_text), 1, <<>>)

RECURSIVE SourceChunksLoop(_, _, _, _)
\* The loop of _get_source_chunks; i is the 0-based index of the token.
SourceChunksLoop(tokens, i, cs, sentence_length) ==
  IF i >= Len(tokens) THEN cs
  ELSE LET token == tokens[i + 1]
           gap == token.beginOffset > sentence_length
           spaced == IF gap THEN Append(cs, ChunkSpace(Len(cs))) ELSE cs
           chunk == maybe_add_dependency(
                      Chunk(Len(spaced), token.content, token.tag, token.label, None),
                      i < token.headTokenIndex)
       IN SourceChunksLoop(tokens, i + 1, Append(spaced, chunk),
            (IF gap THEN token.beginOffset ELSE sentence_length)
              + Len(token.content))

\* _get_source_chunks, given the tokens api.get_annotations returned.
get_source_chunks(tokens) == SourceChunksLoop(tokens, 0, <<>>, 0)

\* _get_attribute_dict.  attributes is [kind, dict, str]: None, a mapping or
\* a string; classname is a string or None.
get_attribute_dict(attributes, classname) ==
  IF attributes.kind = "str" /\ attributes.str # <<>>
    THEN [class |-> attributes.str]
  ELSE LET given == IF attributes.kind = "dict" THEN attributes.dict ELSE <<>>
           cls == IF classname = None THEN DEFAULT_CLASS_NAME ELSE classname
       IN [k \in DOMAIN given \cup {"class"} |->
             IF k \in DOMAIN given THEN given[k] ELSE cls]

RECURSIVE SerializeLoop(_, _, _)
\* The loop of _html_serialize: doc is the list of the child elements.
SerializeLoop(cs, attributes, doc) ==
  IF cs = <<>> THEN doc
  ELSE LET chunk == Head(cs) IN
       IF is_space(chunk)
         THEN SerializeLoop(Tail(cs), attributes,
                IF doc # <<>>
                  THEN [doc EXCEPT ![Len(doc)].tail = " "]
                  ELSE doc)
         ELSE SerializeLoop(Tail(cs), attributes,
                Append(doc, [text |-> chunk.word, attrib |-> attributes, tail |-> ""]))

\* _html_serialize: the HTML code as the list of the SPAN elements inside
\* the outer one, each with its text, attributes and tail.
html_serialize(cs, attributes) == SerializeLoop(cs, attributes, <<>>)

RECURSIVE SerializeAll(_)
\* [chunk.serialize() for chunk in chunks]
SerializeAll(cs) ==
  IF cs = <<>> THEN <<>> ELSE <<serialize(Head(cs))>> \o SerializeAll(Tail(cs))

(***************************************************************************)
(* The collaborators of parse: the annotation and entity services and the  *)
(* cache.                                                                  *)
(***************************************************************************)
\* What the annotation service says of a character: tag, label and where
\* the head token lies (-1 before, 0 itself, 1 after).
Lexicon(ch) ==
  CASE ch = "(" -> [tag |-> "PUNCT", label |-> "P", head |-> 1]
    [] ch = ")" -> [tag |-> "PUNCT", label |-> "P", head |-> -1]
    [] ch = "a" -> [tag |-> "NUM", label |-> "NUM", head |-> 1]
    [] ch = "b" -> [tag |-> "PRT", label |-> "AUX", head |-> -1]
    [] OTHER -> [tag |-> "VERB", label |-> "ROOT", head |-> 0]

RECURSIVE AnnotateLoop(_, _, _)
AnnotateLoop(t, offset, tokens) ==
  IF offset >= Len(t) THEN tokens
  ELSE IF IsWhite(t[offset + 1]) THEN AnnotateLoop(t, offset + 1, tokens)
  ELSE AnnotateLoop(t, offset + 1,
         Append(tokens,
           [content |-> <<t[offset + 1]>>, beginOffset |-> offset,
            tag |-> Lexicon(t[offset + 1]).tag,
            label |-> Lexicon(t[offset + 1]).label,
            headTokenIndex |-> Len(tokens) + Lexicon(t[offset + 1]).head]))

\* api.get_annotations: one token for each character that is not a space.
get_annotations(input_text) == AnnotateLoop(input_text, 0, <<>>)

\* api.get_entities: no entity, one entity spanning the text, or an entity
\* whose offset lies past the text.
EntityResponses(input_text) ==
  {<<>>,
   <<[beginOffset |-> 0, contentLen |-> Len(input_text)]>>,
   <<[beginOffset |-> Len(input_text), contentLen |-> 1]>>}

\* A key made of the source alone.
CacheKeySourceOnly(source, language) == <<source>>

\* The key of a (source, language) pair.
CacheKey(source, language) == <<source, language>>

\* cache.get(source, language): <<value>> when the key is set, <<>> when it
\* is not (a miss).
CacheGet(c, source, language) ==
  IF CacheKey(source, language) \in DOMAIN c
    THEN <<c[CacheKey(source, language)]>>
    ELSE <<>>

\* cache.set(source, language, value)
CacheSet(c, source, language, value) ==
  [k \in DOMAIN c \cup {CacheKey(source, language)} |->
     IF k = CacheKey(source, language) THEN value ELSE c[k]]

NoValue == [chunks |-> <<>>, html_code |-> <<>>]
Failure == [err |-> TRUE, value |-> NoValue]

\* _get_chunks_with_api.  service is what the services do in this call:
\* [annotations: "ok" or "fail", entities_fail: whether api.get_entities
\* raises, entities: the entities it returns otherwise].
get_chunks_with_api(input_text, use_entity, service) ==
  IF service.annotations = "fail" THEN [err |-> TRUE, chunks |-> <<>>]
  ELSE LET source_chunks == get_source_chunks(get_annotations(input_text)) IN
       IF ~use_entity
         THEN [err |-> FALSE, chunks |-> resolve_dependency(source_chunks)]
       ELSE IF service.entities_fail
         THEN [err |-> TRUE, chunks |-> <<>>]
       ELSE LET grouped == group_chunks_by_entities(source_chunks, service.entities) IN
            IF grouped.err THEN [err |-> TRUE, chunks |-> <<>>]
            ELSE [err |-> FALSE, chunks |-> resolve_dependency(grouped.chunks)]

\* Lines 220-233 of parse: the result computed without the cache.
Pipeline(source, attributes, language, use_entity, classname, service) ==
  LET input_text == preprocess(source)
      got == IF language = "ko"
               THEN [err |-> FALSE, chunks |-> get_chunks_per_space(input_text)]
               ELSE get_chunks_with_api(input_text, use_entity, service)
  IN IF got.err THEN Failure
     ELSE [err |-> FALSE,
           value |-> [chunks |-> SerializeAll(got.chunks),
                      html_code |-> html_serialize(got.chunks,
                                      get_attribute_dict(attributes, classname))]]

\* `if result_value:` a dictionary is true unless it is empty.
Truthy(value) == DOMAIN value # {}

\* parse setting the cache before the result is known to be complete.
parse_sets_first(c, source, attributes, use_cache, language, use_entity, classname, service) ==
  LET cached == CacheGet(c, source, language) IN
  IF use_cache /\ cached # <<>> /\ Truthy(cached[1])
    THEN [err |-> FALSE, value |-> cached[1], cache |-> c]
  ELSE LET r == Pipeline(source, attributes, language, use_entity, classname, service) IN
       [err |-> r.err, value |-> r.value,
        cache |-> IF use_cache THEN CacheSet(c, source, language, r.value) ELSE c]

\* parse: [err, value, cache] are whether it raised, what it returned and
\* the cache it leaves.
parse(c, source, attributes, use_cache, language, use_entity, classname, service) ==
  LET cached == CacheGet(c, source, language) IN
  IF use_cache /\ cached # <<>> /\ Truthy(cached[1])
    THEN [err |-> FALSE, value |-> cached[1], cache |-> c]
  ELSE LET r == Pipeline(source, attributes, language, use_entity, classname, service) IN
       IF r.err THEN [err |-> TRUE, value |-> NoValue, cache |-> c]
       ELSE [err |-> FALSE, value |-> r.value,
             cache |-> IF use_cache THEN CacheSet(c, source, language, r.value) ELSE c]

(***************************************************************************)
(* Spec: calls of parse on one parser and one cache.                       *)
(***************************************************************************)
Sources ==
  {<<"(", " ", "c">>,
   <<" ", "a", "c", " ", "\n", " ", "b">>}

Languages == {"ja", "ko"}

AttributeArgs ==
  {[kind |-> "None", dict |-> <<>>, str |-> <<>>],
   [kind |-> "dict", dict |-> [class |-> "c1"], str |-> <<>>],
   [kind |-> "dict", dict |-> [id |-> "i1"], str |-> <<>>]}

ClassNames == {None, "cn"}

\* What the services may do in a call, told apart only where the call
\* consults them.
Services(input_text, language, use_entity) ==
  LET quiet == [annotations |-> "ok", entities_fail |-> FALSE, entities |-> <<>>] IN
  IF language = "ko" THEN {quiet}
  ELSE {quiet, [quiet EXCEPT !.annotations = "fail"]}
       \cup (IF use_entity
               THEN {[quiet EXCEPT !.entities = e] : e \in EntityResponses(input_text)}
                    \cup {[quiet EXCEPT !.entities_fail = TRUE]}
               ELSE {})

NoCall ==
  [source |-> <<>>, attributes |-> [kind |-> "None", dict |-> <<>>, str |-> <<>>],
   use_cache |-> FALSE, language |-> None, use_entity |-> FALSE, classname |-> None]

Init ==
  /\ chunks = <<>>
  /\ text = <<>>
  /\ prev = <<>>
  /\ op = "init"
  /\ args = NoCall
  /\ ret = Failure
  /\ cache = NoCache
  /\ calls = 0

Parse ==
  /\ calls < MaxCalls
  /\ \E source \in Sources, attributes \in AttributeArgs, use_cache \in BOOLEAN,
        language \in Languages, use_entity \in BOOLEAN, classname \in ClassNames :
       \E service \in Services(preprocess(source), language, use_entity) :
         LET r == parse(cache, source, attributes, use_cache, language,
                        use_entity, classname, service) IN
         /\ ret' = [err |-> r.err, value |-> r.value]
         /\ cache' = r.cache
         /\ args' = [source |-> source, attributes |-> attributes,
                     use_cache |-> use_cache, language |-> language,
                     use_entity |-> use_entity, classname |-> classname]
  /\ op' = "parse"
  /\ calls' = calls + 1
  /\ UNCHANGED <<chunks, text, prev>>

Next == Parse

Spec == Init /\ [][Next]_vars

(***************************************************************************)
(* SpecCache: set and get on the cache alone.                              *)
(***************************************************************************)
CacheSources == {"a", "b"}
CacheLanguages == {"en", "ja"}
CacheValues == {1, 2, 3}

CacheInit ==
  /\ chunks = <<>>
  /\ text = <<>>
  /\ prev = <<>>
  /\ op = "init"
  /\ args = [source |-> "a", language |-> "en", value |-> 1]
  /\ ret = <<>>
  /\ cache = NoCache
  /\ calls = 0

\* cache.set(source, language, value)
Set ==
  /\ \E source \in CacheSources, language \in CacheLanguages, value \in CacheValues :
       /\ cache' = CacheSet(cache, source, language, value)
       /\ args' = [source |-> source, language |-> language, value |-> value]
  /\ op' = "set"
  /\ ret' = <<>>
  /\ UNCHANGED <<chunks, text, prev, calls>>

\* cache.get(source, language)
Get ==
  /\ \E source \in CacheSources, language \in CacheLanguages :
       /\ ret' = CacheGet(cache, source, language)
       /\ args' = [source |-> source, language |-> language, value |-> 1]
  /\ op' = "get"
  /\ UNCHANGED <<chunks, text, prev, cache, calls>>

CacheNext == Set \/ Get

SpecCache == CacheInit /\ [][CacheNext]_vars

(***************************************************************************)
(* Properties                                                              *)
(***************************************************************************)
\* Start offset of the k-th chunk: the sum of the word lengths before it.
RECURSIVE StartOf(_, _)
StartOf(cs, k) == IF k <= 1 THEN 0 ELSE StartOf(cs, k - 1) + Len(cs[k - 1].word)

EndOf(cs, k) == StartOf(cs, k) + Len(cs[k].word)

\* The ranges [s, e) and [o, o + l) share a character position.
Intersects(s, e, o, l) == \E x \in s..(e - 1) : o <= x /\ x < o + l

SameChunk(c, d) == serialize(c) = serialize(d)

SameList(cs, ds) ==
  /\ Len(cs) = Len(ds)
  /\ \A i \in 1..Len(cs) : SameChunk(cs[i], ds[i])

\* C1: after any sequence of entity groupings and dependency resolutions the
\* chunk words, concatenated in order, still equal the source text.
TextInvariant == JoinWords(chunks) = text

\* C1 witness: a resolution has merged a chunk made by entity grouping with a
\* neighbour.
TextInvariantWitness ==
  /\ op = "resolve"
  /\ \E i \in 1..Len(chunks) :
       /\ chunks[i].pos = None
       /\ Len(chunks[i].word) >= 3
       /\ \E j \in 1..Len(chunks[i].word) : chunks[i].word[j] = " "

\* C2: resolving the output of _resolve_dependency again yields the same
\* list: same length, same word, pos, label and dependency at every position.
Idempotence == op = "resolve" => SameList(resolve_dependency(chunks), chunks)

\* C2 witness: a resolution that merged a Forward chunk, a word and a space
\* into one chunk.
IdempotenceWitness ==
  /\ op = "resolve"
  /\ Len(prev) = 3 /\ Len(chunks) = 1
  /\ prev[1].dependency = "True"
  /\ is_space(prev[3])

\* C3 as stated: get_overlaps returns, in order, exactly the chunks whose
\* range [start, start + len(word)) intersects [offset, offset + length).
OverlapAsStated ==
  (op = "get_overlaps" /\ ~ret.err) =>
    ret.result =
      SelectSeq(chunks,
        LAMBDA c : Intersects(StartOf(chunks, c.id + 1), EndOf(chunks, c.id + 1),
                              args.offset, args.length))

\* The offset get_overlaps scans with: one further when the character at
\* offset is a space.
ScanOffset == IF text[args.offset + 1] = " " THEN args.offset + 1 ELSE args.offset

\* C3 amended: with the offset moved one further when it points at a space,
\* get_overlaps returns, in order, exactly the chunks whose range intersects
\* [offset, offset + length) when length >= 1, and the chunk that has the
\* offset strictly inside its range when length = 0.
OverlapCorrected ==
  (op = "get_overlaps" /\ ~ret.err) =>
    ret.result =
      SelectSeq(chunks,
        LAMBDA c :
          IF args.length >= 1
            THEN Intersects(StartOf(chunks, c.id + 1), EndOf(chunks, c.id + 1),
                            ScanOffset, args.length)
            ELSE StartOf(chunks, c.id + 1) < ScanOffset
                 /\ ScanOffset < EndOf(chunks, c.id + 1))

\* C3 witness: an offset that points at a space, with two chunks returned.
OverlapWitness ==
  /\ op = "get_overlaps" /\ ~ret.err
  /\ text[args.offset + 1] = " "
  /\ Len(ret.result) = 2

\* old_chunks is a non-empty run of the list starting at position i.
IsRunAt(cs, old_chunks, i) ==
  /\ old_chunks # <<>>
  /\ i + Len(old_chunks) - 1 <= Len(cs)
  /\ \A k \in 1..Len(old_chunks) : old_chunks[k].id = cs[i + k - 1].id

\* C9: swap fails, leaving the list as it was, unless old_chunks is a
\* non-empty contiguous run in order; then exactly the run is replaced by
\* new_chunk.
SwapFailFast ==
  op = "swap" =>
    IF \E i \in 1..Len(prev) : IsRunAt(prev, args.old_chunks, i)
      THEN /\ ~ret.err
           /\ \E i \in 1..Len(prev) :
                /\ IsRunAt(prev, args.old_chunks, i)
                /\ chunks = SubSeq(prev, 1, i - 1) \o <<args.new_chunk>>
                            \o SubSeq(prev, i + Len(args.old_chunks), Len(prev))
      ELSE ret.err /\ chunks = prev

\* The entity of the "Tokyo Tower" scenario: offset 0, content length 11.
TokyoTowerCase ==
  /\ op = "group"
  /\ prev = TokyoTower
  /\ args.entities = <<[beginOffset |-> 0, contentLen |-> 11]>>

\* C7 as stated: the scenario leaves one chunk with word "TokyoTower".
TokyoTowerAsStated ==
  TokyoTowerCase =>
    /\ Len(chunks) = 1
    /\ chunks[1].word = <<"T", "o", "k", "y", "o", "T", "o", "w", "e", "r">>
    /\ chunks[1].dependency = None /\ chunks[1].pos = None /\ chunks[1].label = None

\* C7 amended: the scenario leaves one chunk whose word is "Tokyo Tower",
\* the space included, with dependency, pos and label None.
TokyoTowerCorrected ==
  TokyoTowerCase =>
    /\ Len(chunks) = 1
    /\ chunks[1].word = <<"T", "o", "k", "y", "o", " ", "T", "o", "w", "e", "r">>
    /\ chunks[1].dependency = None /\ chunks[1].pos = None /\ chunks[1].label = None

\* C7 witness: the scenario's grouping has run without error.
TokyoTowerWitness == TokyoTowerCase /\ ~ret.err

\* The positions lo..hi of prev that the k-th chunk of the output covers.
CoverLo(k) == CHOOSE m \in 1..Len(prev) : StartOf(prev, m) = StartOf(chunks, k)
CoverHi(k) == CHOOSE m \in 1..Len(prev) : EndOf(prev, m) = EndOf(chunks, k)

\* The terminator of the run lo..hi: its first chunk that is not Forward.
Terminator(lo, hi) ==
  IF \E m \in lo..hi : prev[m].dependency # "True"
    THEN CHOOSE m \in lo..hi :
           /\ prev[m].dependency # "True"
           /\ \A n \in lo..(m - 1) : prev[n].dependency = "True"
    ELSE lo

BackwardOrSpace(c) == c.dependency = "False" \/ is_space(c)

\* C10: in the output of _resolve_dependency, (a) a Forward chunk is followed
\* only by Forward chunks, (b) a Backward or space chunk is preceded only by
\* Backward or space chunks, and (c) every chunk has the pos, label and
\* dependency of the terminator of the run it was merged from.
ResolveNetResult ==
  op = "resolve" =>
    /\ \A i \in 1..(Len(chunks) - 1) :
         chunks[i].dependency = "True" => chunks[i + 1].dependency = "True"
    /\ \A i \in 2..Len(chunks) :
         BackwardOrSpace(chunks[i]) => BackwardOrSpace(chunks[i - 1])
    /\ \A k \in 1..Len(chunks) :
         /\ \E m \in 1..Len(prev) : StartOf(prev, m) = StartOf(chunks, k)
         /\ \E m \in 1..Len(prev) : EndOf(prev, m) = EndOf(chunks, k)
         /\ LET t == prev[Terminator(CoverLo(k), CoverHi(k))] IN
            /\ chunks[k].pos = t.pos
            /\ chunks[k].label = t.label
            /\ chunks[k].dependency = t.dependency
         /\ chunks[k].word = JoinWords(SubSeq(prev, CoverLo(k), CoverHi(k)))

\* C10 witness: a Forward chunk, an Unset chunk and a Backward chunk merged
\* into one chunk that keeps the Unset chunk's attributes.
ResolveNetResultWitness ==
  /\ op = "resolve"
  /\ Len(prev) = 3 /\ Len(chunks) = 1
  /\ prev[1].dependency = "True"
  /\ prev[2].dependency = None /\ ~is_space(prev[2])
  /\ prev[3].dependency = "False"
  /\ chunks[1].pos = prev[2].pos

\* The SPAN elements a call's attribute mapping asks for: every key and value
\* of the mapping, and the class name given (or the default) when the mapping
\* has no class.
CarriesAttributes(element, attributes, classname) ==
  /\ \A k \in DOMAIN attributes.dict :
       k \in DOMAIN element.attrib /\ element.attrib[k] = attributes.dict[k]
  /\ "class" \notin DOMAIN attributes.dict =>
       /\ "class" \in DOMAIN element.attrib
       /\ element.attrib["class"] =
            (IF classname = None THEN DEFAULT_CLASS_NAME ELSE classname)

NonSpace(cs) == SelectSeq(cs, LAMBDA c : c.pos # SPACE_POS)

\* The HTML code has one element for each chunk that is not a space, in
\* order, with the chunk's word as its text.
ElementPerChunk(value) ==
  /\ Len(value.html_code) = Len(NonSpace(value.chunks))
  /\ \A i \in 1..Len(value.html_code) :
       value.html_code[i].text = NonSpace(value.chunks)[i].word

\* C4: the HTML code a parse call returns has one element for each non-space
\* chunk, each carrying the attribute mapping passed to that call.
HtmlCarriesAttributes ==
  (op = "parse" /\ ~ret.err) =>
    /\ ElementPerChunk(ret.value)
    /\ \A i \in 1..Len(ret.value.html_code) :
         CarriesAttributes(ret.value.html_code[i], args.attributes, args.classname)

\* C5: a parse call that fails, or that is made with use_cache false, leaves
\* the cache as it was; the cache changes only by setting the key of the call
\* to the result the call returns; a call with use_cache false returns a
\* result computed from its own arguments; and every entry of the cache is a
\* complete result.
CacheAtomic ==
  [][op' = "parse" =>
       /\ (ret'.err \/ ~args'.use_cache) => cache' = cache
       /\ cache' # cache =>
            cache' = CacheSet(cache, args'.source, args'.language, ret'.value)
       /\ (~args'.use_cache /\ ~ret'.err) =>
            \A i \in 1..Len(ret'.value.html_code) :
              CarriesAttributes(ret'.value.html_code[i], args'.attributes,
                                args'.classname)
       /\ \A k \in DOMAIN cache' :
            cache'[k].chunks # <<>> /\ ElementPerChunk(cache'[k])]_vars

\* C5 witness: a call with use_cache true has failed while the cache held a
\* result.
CacheAtomicWitness ==
  op = "parse" /\ ret.err /\ args.use_cache /\ DOMAIN cache # {}

\* C6: no key is set at first; a set makes get of its pair return its value
\* and leaves get of every other pair as it was; a get changes nothing.
CacheIsolation ==
  /\ \A s \in CacheSources, l \in CacheLanguages : CacheGet(cache, s, l) = <<>>
  /\ [][/\ op' = "set" =>
            /\ CacheGet(cache', args'.source, args'.language) = <<args'.value>>
            /\ \A s \in CacheSources, l \in CacheLanguages :
                 (s # args'.source \/ l # args'.language) =>
                   CacheGet(cache', s, l) = CacheGet(cache, s, l)
        /\ op' = "get" =>
            /\ cache' = cache
            /\ ret' = CacheGet(cache, args'.source, args'.language)]_vars

\* C6 witness: the same source is set under two languages with different
\* values, and a get returns one of them.
CacheIsolationWitness ==
  /\ op = "get" /\ ret # <<>>
  /\ CacheGet(cache, "a", "en") # <<>>
  /\ CacheGet(cache, "a", "ja") # <<>>
  /\ CacheGet(cache, "a", "en") # CacheGet(cache, "a", "ja")
  /\ CacheGet(cache, "b", "en") = <<>>

\* C8: every chunk a parse call returns that is marked SPACE has a word that
\* is exactly one space.
SpaceChunkInvariant ==
  (op = "parse" /\ ~ret.err) =>
    \A i \in 1..Len(ret.value.chunks) :
      ret.value.chunks[i].pos = SPACE_POS => ret.value.chunks[i].word = <<" ">>

====
